---- MODULE Spec2Model ----
(***************************************************************************)
(* micro_ihex: a no_std Intel HEX codec.                                   *)
(*                                                                         *)
(* The codec is stateless: IHex::parse turns one text line into a record   *)
(* or an error, IHex::serialize writes one record into a caller's buffer.  *)
(* The state of the model is the last call: its arguments and what it      *)
(* returned.  Text is a sequence of byte values (ASCII codes), so that the *)
(* hexadecimal conversion is modelled digit by digit.  A Rust panic (an    *)
(* index or slice out of range, an arithmetic underflow) is the return     *)
(* value [tag |-> "Panic"].                                                *)
(***************************************************************************)
EXTENDS Integers, Sequences, FiniteSets, TLC

VARIABLES op, line, result, record, buffer, written, bytes, sum, tampered,
          text, inner, done, yielded

vars == <<op, line, result, record, buffer, written, bytes, sum, tampered,
          text, inner, done, yielded>>

\* The state of a multi-line iteration: the text, the lines not yet taken,
\* Parser's done flag, and what the calls of next have returned so far.
iter == <<text, inner, done, yielded>>

(***************************************************************************)
(* Bounds of the explored inputs.                                          *)
(***************************************************************************)
MaxPayload == 4
MaxSeq == 2
MaxSlack == 2
MaxTamperHead == 6
MaxLines == 2
MaxExtraCalls == 2

(***************************************************************************)
(* Program constants.                                                      *)
(***************************************************************************)
DATA == 0
END_OF_FILE == 1
EXTENDED_SEGMENT_ADDRESS == 2
START_SEGMENT_ADDRESS == 3
EXTENDED_LINEAR_ADDRESS == 4
START_LINEAR_ADDRESS == 5

COLON == 58
LF == 10
CR == 13
SCRATCH == 512
BYTES_CAP == 255

U8 == 0..255

(***************************************************************************)
(* Small helpers.                                                          *)
(***************************************************************************)
Min(a, b) == IF a < b THEN a ELSE b

Fill(n, v) == [i \in 1..n |-> v]

Slice(s, lo, hi) == [i \in 1..(hi - lo) |-> s[lo + i]]

RECURSIVE SeqsUpTo(_, _)
SeqsUpTo(S, n) ==
    IF n = 0 THEN {<<>>}
    ELSE LET shorter == SeqsUpTo(S, n - 1)
         IN  shorter \cup {Append(s, x) : s \in {t \in shorter : Len(t) = n - 1}, x \in S}

(***************************************************************************)
(* The hex crate: the digit tables and the two slice conversions.          *)
(***************************************************************************)
HEX_CHARS_LOWER == <<48, 49, 50, 51, 52, 53, 54, 55, 56, 57, 97, 98, 99, 100, 101, 102>>

HEX_CHARS_UPPER == <<48, 49, 50, 51, 52, 53, 54, 55, 56, 57, 65, 66, 67, 68, 69, 70>>

\* hex::val: the value of one digit, -1 for InvalidHexCharacter.
val(c) ==
    IF c >= 65 /\ c <= 70 THEN c - 65 + 10
    ELSE IF c >= 97 /\ c <= 102 THEN c - 97 + 10
    ELSE IF c >= 48 /\ c <= 57 THEN c - 48
    ELSE -1

\* hex::decode_to_slice(data, out) with Len(out) = outLen.
decode_to_slice(data, outLen) ==
    IF Len(data) % 2 # 0 THEN [ok |-> FALSE, out |-> <<>>]
    ELSE IF Len(data) \div 2 # outLen THEN [ok |-> FALSE, out |-> <<>>]
    ELSE IF \E i \in 1..Len(data) : val(data[i]) < 0 THEN [ok |-> FALSE, out |-> <<>>]
    ELSE [ok |-> TRUE,
          out |-> [i \in 1..outLen |-> val(data[2 * i - 1]) * 16 + val(data[2 * i])]]

\* encode_to_slice writing the uppercase digits.
encode_to_slice_upper(input, outLen) ==
    IF Len(input) * 2 # outLen THEN [ok |-> FALSE, out |-> <<>>]
    ELSE [ok |-> TRUE,
          out |-> [i \in 1..outLen |->
                     IF i % 2 = 1 THEN HEX_CHARS_UPPER[(input[(i + 1) \div 2] \div 16) + 1]
                     ELSE HEX_CHARS_UPPER[(input[i \div 2] % 16) + 1]]]

\* hex::encode_to_slice(input, out) with Len(out) = outLen; lowercase digits.
encode_to_slice(input, outLen) ==
    IF Len(input) * 2 # outLen THEN [ok |-> FALSE, out |-> <<>>]
    ELSE [ok |-> TRUE,
          out |-> [i \in 1..outLen |->
                     IF i % 2 = 1 THEN HEX_CHARS_LOWER[(input[(i + 1) \div 2] \div 16) + 1]
                     ELSE HEX_CHARS_LOWER[(input[i \div 2] % 16) + 1]]]

(***************************************************************************)
(* checksum.rs: a left fold with wrapping_add, then 0u8.wrapping_sub.      *)
(* The fold walks the bytes in order, the accumulator a u8 at every step;   *)
(* it is evaluated a block at a time to keep the evaluation stack shallow. *)
(***************************************************************************)
RECURSIVE fold_block(_, _, _, _)
fold_block(s, i, last, acc) ==
    IF acc \in U8 /\ i <= last
    THEN fold_block(s, i + 1, last, (acc + s[i]) % 256)
    ELSE acc

RECURSIVE fold(_, _, _)
fold(s, i, acc) ==
    IF acc \in U8 /\ i <= Len(s)
    THEN fold(s, i + 16, fold_block(s, i, Min(i + 15, Len(s)), acc))
    ELSE acc

\* checksum without the final wrapping_sub.
checksum_unnegated(bs) == fold(bs, 1, 0)

checksum(bs) == (0 - fold(bs, 1, 0)) % 256

\* lib.rs: the crate root's own checksum is the bare wrapping sum.
lib_checksum(bs) == fold(bs, 1, 0)

\* lib.rs: parse negates the sum itself.
lib_parse_checksum(bs) == (0 - lib_checksum(bs)) % 256

\* The checksum parse compares with the last byte, and the one format appends.
parse_checksum(lib, bs) == IF lib THEN lib_parse_checksum(bs) ELSE checksum(bs)

format_checksum(lib, bs) == IF lib THEN lib_checksum(bs) ELSE checksum(bs)

(***************************************************************************)
(* ihex.rs: the record and its derived type tag.                           *)
(***************************************************************************)
Data(bs, length, offset) ==
    [type |-> "Data", bytes |-> bs, length |-> length, offset |-> offset]

EndOfFile == [type |-> "EndOfFile"]

ExtendedSegmentAddress(a) == [type |-> "ExtendedSegmentAddress", address |-> a]

StartSegmentAddress(cs, ip) == [type |-> "StartSegmentAddress", cs |-> cs, ip |-> ip]

ExtendedLinearAddress(a) == [type |-> "ExtendedLinearAddress", address |-> a]

StartLinearAddress(a) == [type |-> "StartLinearAddress", address |-> a]

record_type(r) ==
    CASE r.type = "Data" -> DATA
      [] r.type = "EndOfFile" -> END_OF_FILE
      [] r.type = "ExtendedSegmentAddress" -> EXTENDED_SEGMENT_ADDRESS
      [] r.type = "StartSegmentAddress" -> START_SEGMENT_ADDRESS
      [] r.type = "ExtendedLinearAddress" -> EXTENDED_LINEAR_ADDRESS
      [] r.type = "StartLinearAddress" -> START_LINEAR_ADDRESS

(***************************************************************************)
(* error.rs and the results of a call.                                     *)
(***************************************************************************)
MissingColon == <<"MissingColon">>
ParseError == <<"ParseError">>
\* BadChecksum with its two bytes the other way round.
BadChecksum_swapped(computed, expected) == <<"BadChecksum", expected, computed>>
BadChecksum(computed, expected) == <<"BadChecksum", computed, expected>>
BadLength == <<"BadLength">>
BadType == <<"BadType">>

Ok(r) == [tag |-> "Ok", rec |-> r]
Err(e) == [tag |-> "Err", err |-> e]
Panic == [tag |-> "Panic"]
NoResult == [tag |-> "None"]

\* u16::from_be_bytes / to_be_bytes.
u16_from_be_bytes(s) == s[1] * 256 + s[2]

\* The low byte first: u16::to_le_bytes.
u16_to_le_bytes(v) == <<v % 256, v \div 256>>

u16_to_be_bytes(v) == <<v \div 256, v % 256>>

\* A u32 is kept as its two 16-bit halves <<high, low>>, value high * 2^16 + low.
u32_from_be_bytes(s) == <<s[1] * 256 + s[2], s[3] * 256 + s[4]>>

u32_to_be_bytes(v) == <<v[1] \div 256, v[1] % 256, v[2] \div 256, v[2] % 256>>

(***************************************************************************)
(* parse.rs / parser.rs / lib.rs: IHex::parse.  The three copies differ    *)
(* only in how the checksum is spelled; lib is TRUE for the copy in lib.rs.*)
(***************************************************************************)
dispatch(length, address, rtype, data) ==
    CASE rtype = DATA ->
           \* bytes[..data.len()].clone_from_slice(data) into [0; 0xFF]
           Ok(Data([i \in 1..BYTES_CAP |-> IF i <= Len(data) THEN data[i] ELSE 0],
                   length, address))
      [] rtype = END_OF_FILE -> Ok(EndOfFile)
      [] rtype = EXTENDED_SEGMENT_ADDRESS ->
           IF Len(data) < 2 THEN Panic
           ELSE Ok(ExtendedSegmentAddress(u16_from_be_bytes(Slice(data, 0, 2))))
      [] rtype = START_SEGMENT_ADDRESS ->
           IF Len(data) < 2 THEN Panic
           ELSE IF Len(data) < 4 THEN Panic
           ELSE Ok(StartSegmentAddress(u16_from_be_bytes(Slice(data, 0, 2)),
                                       u16_from_be_bytes(Slice(data, 2, 4))))
      [] rtype = EXTENDED_LINEAR_ADDRESS ->
           IF Len(data) < 2 THEN Panic
           ELSE Ok(ExtendedLinearAddress(u16_from_be_bytes(Slice(data, 0, 2))))
      [] rtype = START_LINEAR_ADDRESS ->
           IF Len(data) < 4 THEN Panic
           ELSE Ok(StartLinearAddress(u32_from_be_bytes(Slice(data, 0, 4))))
      [] OTHER -> Err(BadType)

validate(lib, decoded) ==
    LET length == Len(decoded)
    IN  IF length = 0 THEN Panic                      \* bytes[length - 1]
        ELSE
        LET expected_checksum == decoded[length]
            bs == Slice(decoded, 0, length - 1)
            computed == parse_checksum(lib, bs)
        IN  IF computed # expected_checksum
            THEN Err(BadChecksum(computed, expected_checksum))
            ELSE IF Len(bs) < 1 THEN Panic            \* bytes[0]
            ELSE IF Len(bs) < 3 THEN Panic            \* bytes[1..3]
            ELSE IF Len(bs) < 4 THEN Panic            \* bytes[3]
            ELSE
            LET declared == bs[1]
                address == u16_from_be_bytes(Slice(bs, 1, 3))
                rtype == bs[4]
                data == Slice(bs, 4, Len(bs))
            IN  IF Len(data) # declared THEN Err(BadLength)
                ELSE dispatch(declared, address, rtype, data)

parse_with(lib, l) ==
    IF Len(l) = 0 THEN Panic                          \* line[0]
    ELSE IF l[1] # COLON THEN Err(MissingColon)
    ELSE
    LET rest == Slice(l, 1, Len(l))
        length == Len(rest) \div 2
    IN  IF length > SCRATCH THEN Panic                \* &mut bytes[..length]
        ELSE
        LET d == decode_to_slice(rest, length)
        IN  IF ~d.ok THEN Err(ParseError)
            ELSE validate(lib, d.out)

parse(l) == parse_with(FALSE, l)

lib_parse(l) == parse_with(TRUE, l)

(***************************************************************************)
(* serializer.rs / lib.rs: format and IHex::serialize.  The buffer is the  *)
(* caller's; a panic leaves in it whatever was written before.             *)
(***************************************************************************)
format_with(lib, rtype, offset, data, buf) ==
    LET data_length == 1 + 2 + 1 + Len(data) + 1
        buffer_length == 2 * data_length + 1
        header == <<Len(data) % 256>> \o u16_to_be_bytes(offset) \o <<rtype>>
        body == header \o data
        scratch == Append(body, format_checksum(lib, body))
    IN  IF Len(buf) < 1 THEN [ret |-> Panic, buffer |-> buf]          \* buffer[0] = b':'
        ELSE
        LET marked == [buf EXCEPT ![1] = COLON]
        IN  IF buffer_length > Len(buf)
            THEN [ret |-> Panic, buffer |-> marked]                  \* &mut buffer[1..buffer_length]
            ELSE
            LET e == encode_to_slice(scratch, buffer_length - 1)
            IN  [ret |-> [tag |-> "Ok", n |-> buffer_length],
                 buffer |-> [i \in 1..Len(buf) |->
                               IF i = 1 THEN COLON
                               ELSE IF i <= buffer_length /\ e.ok THEN e.out[i - 1]
                               ELSE buf[i]]]

format(rtype, offset, data, buf) == format_with(FALSE, rtype, offset, data, buf)

lib_format(rtype, offset, data, buf) == format_with(TRUE, rtype, offset, data, buf)

\* The payload and the offset field serialize hands to format.
payload_of(r) ==
    CASE r.type = "Data" -> Slice(r.bytes, 0, r.length)
      [] r.type = "EndOfFile" -> <<>>
      [] r.type = "ExtendedSegmentAddress" -> u16_to_be_bytes(r.address)
      [] r.type = "StartSegmentAddress" -> u16_to_be_bytes(r.cs) \o u16_to_be_bytes(r.ip)
      [] r.type = "ExtendedLinearAddress" -> u16_to_be_bytes(r.address)
      [] r.type = "StartLinearAddress" -> u32_to_be_bytes(r.address)

offset_of(r) == IF r.type = "Data" THEN r.offset ELSE 0

serialize(r, buf) == format(record_type(r), offset_of(r), payload_of(r), buf)

\* lib.rs: serialize returns (), so the caller gets no length back.
lib_serialize(r, buf) ==
    LET f == lib_format(record_type(r), offset_of(r), payload_of(r), buf)
    IN  [ret |-> IF f.ret.tag = "Ok" THEN [tag |-> "Unit"] ELSE f.ret, buffer |-> f.buffer]

(***************************************************************************)
(* core::str::Lines: the text is split at every \n, a \r right before the  *)
(* \n goes with it, and text left after the last \n is a last line.        *)
(***************************************************************************)
strip_cr(l) == IF Len(l) > 0 /\ l[Len(l)] = CR THEN Slice(l, 0, Len(l) - 1) ELSE l

RECURSIVE split_lines(_, _, _, _)
split_lines(s, start, i, acc) ==
    IF Len(acc) >= 0 /\ i <= Len(s)
    THEN IF s[i] = LF
         THEN split_lines(s, i + 1, i + 1, Append(acc, strip_cr(Slice(s, start - 1, i - 1))))
         ELSE split_lines(s, start, i + 1, acc)
    ELSE IF start <= Len(s) THEN Append(acc, Slice(s, start - 1, Len(s))) ELSE acc

lines(s) == split_lines(s, 1, 1, <<>>)

(***************************************************************************)
(* parser.rs: Parser, and parse.rs: IHex::parse_multi.  An iterator is the *)
(* lines it has not taken yet; next returns Some(item) or None.            *)
(***************************************************************************)
Some(v) == [tag |-> "Some", val |-> v]
None == [tag |-> "None"]

\* Parser::next_line: the first line that is not empty, and the lines after it.
RECURSIVE next_line(_)
next_line(ls) ==
    IF ls = <<>> THEN [line |-> None, inner |-> <<>>]
    ELSE IF Len(Head(ls)) # 0 THEN [line |-> Some(Head(ls)), inner |-> Tail(ls)]
    ELSE next_line(Tail(ls))

\* Option::map(IHex::parse)
map_parse(o) == IF o.tag = "Some" THEN Some(parse(o.val)) ELSE None

\* <Parser as Iterator>::next
parser_next(ls, d) ==
    IF d THEN [item |-> None, inner |-> ls]
    ELSE LET n == next_line(ls) IN [item |-> map_parse(n.line), inner |-> n.inner]

\* Map<Lines, parse>::next, the iterator parse_multi returns.
multi_next(ls) ==
    IF ls = <<>> THEN [item |-> None, inner |-> <<>>]
    ELSE [item |-> Some(parse(Head(ls))), inner |-> Tail(ls)]

(***************************************************************************)
(* The inputs the calls are driven with.                                   *)
(***************************************************************************)
ByteSamples == {0, 1, 171, 255}
PayloadBytes == {0, 171}
ShortBytes == {0, 1, 255}
Offsets == {0, 4779, 65535}
WireOffsets == {0, 4779}
WireTypes == {0, 1, 2, 3, 4, 5, 6, 255}
Words == {0, 255, 4862, 43981, 65535}
DWords == {<<0, 0>>, <<4660, 22136>>, <<255, 171>>, <<65535, 65535>>}
TailFills == {0, 165}
LongLengths == {BYTES_CAP - 1, BYTES_CAP}
BadChars == {13, 32, 47, 58, 64, 71, 96, 103}
TamperValues == {1, 255}

\* The byte a line needs last for its bytes to sum to 0 mod 256.
RECURSIVE Total(_, _, _)
Total(s, lo, hi) ==
    IF lo > hi THEN 0
    ELSE IF lo = hi THEN s[lo]
    ELSE LET mid == (lo + hi) \div 2 IN Total(s, lo, mid) + Total(s, mid + 1, hi)

SumToZero(bs) == (256 - (Total(bs, 1, Len(bs)) % 256)) % 256

ToHex(bs, table) ==
    [i \in 1..(2 * Len(bs)) |->
       IF i % 2 = 1 THEN table[(bs[(i + 1) \div 2] \div 16) + 1]
       ELSE table[(bs[i \div 2] % 16) + 1]]

LineOf(bs, table) == <<COLON>> \o ToHex(bs, table)

Tables == {HEX_CHARS_LOWER, HEX_CHARS_UPPER}

Records ==
    {Data([i \in 1..BYTES_CAP |-> IF i <= Len(p) THEN p[i] ELSE t], Len(p), o) :
        p \in SeqsUpTo(ByteSamples, MaxSeq), t \in TailFills, o \in Offsets}
    \cup {Data([i \in 1..BYTES_CAP |-> IF i <= n THEN (a + i) % 256 ELSE t], n, o) :
        n \in LongLengths, a \in ByteSamples, t \in TailFills, o \in WireOffsets}
    \cup {EndOfFile}
    \cup {ExtendedSegmentAddress(a) : a \in Words}
    \cup {StartSegmentAddress(c, i) : c \in Words, i \in Words}
    \cup {ExtendedLinearAddress(a) : a \in Words}
    \cup {StartLinearAddress(a) : a \in DWords}

\* Lines built field by field: every tag, a declared length that may or may
\* not match the payload, a checksum that may or may not be right.
Declared(p) == {Len(p), Len(p) + 1, 0}

WireBodies ==
    UNION {{<<d, o \div 256, o % 256, t>> \o p : d \in Declared(p), o \in WireOffsets, t \in WireTypes} :
             p \in SeqsUpTo(PayloadBytes, MaxPayload)}

WireLines ==
    {LineOf(Append(b, (SumToZero(b) + k) % 256), tb) :
        b \in WireBodies, k \in {0, 1}, tb \in Tables}

\* Data lines of the greatest lengths.
FullLines ==
    {LineOf(Append(b, SumToZero(b)), tb) :
        b \in {<<n, o \div 256, o % 256, DATA>> \o [i \in 1..n |-> (a + i) % 256] :
                  n \in LongLengths, a \in ByteSamples, o \in WireOffsets},
        tb \in Tables}

\* Bodies too short to hold a header.
ShortLines == {LineOf(b, HEX_CHARS_UPPER) : b \in SeqsUpTo(ShortBytes, 4)}

\* The lines of the repository's tests, cut short or with one character replaced.
BaseLines ==
    {LineOf(<<0, 0, 0, 1, 255>>, HEX_CHARS_UPPER),
     LineOf(<<2, 0, 0, 2, 18, 254, 236>>, HEX_CHARS_UPPER),
     LineOf(<<4, 0, 0, 3, 18, 52, 56, 0, 123>>, HEX_CHARS_UPPER),
     LineOf(<<2, 0, 0, 4, 171, 205, 130>>, HEX_CHARS_UPPER),
     LineOf(<<4, 0, 0, 5, 18, 52, 86, 120, 227>>, HEX_CHARS_UPPER),
     LineOf(<<11, 0, 16, 0, 97, 100, 100, 114, 101, 115, 115, 32, 103, 97, 112, 167>>,
            HEX_CHARS_UPPER)}

RawLines ==
    {Slice(b, 0, Min(k, Len(b))) : b \in BaseLines, k \in 0..12}
    \cup {Slice(b, 1, Len(b)) : b \in BaseLines}
    \cup {[b EXCEPT ![i] = c] : b \in BaseLines, i \in 1..11, c \in BadChars}

\* Lines around and past the 0x200-byte scratch buffer of parse.
LongLines ==
    {<<COLON>> \o Fill(n, c) :
        n \in {2 * 261, 2 * SCRATCH - 1, 2 * SCRATCH, 2 * SCRATCH + 1, 2 * SCRATCH + 2,
               2 * SCRATCH + 3},
        c \in {48, 103}}
    \cup {Fill(2 * SCRATCH + 3, 48)}

Lines == WireLines \cup FullLines \cup ShortLines \cup RawLines \cup LongLines

ChecksumInputs ==
    SeqsUpTo(ByteSamples, MaxSeq)
    \cup {[i \in 1..n |-> (a + i * b) % 256] :
            n \in {255, 258, 259}, a \in ByteSamples, b \in ByteSamples}

\* The length of the line a record serializes to.
LineLength(r) == 1 + 2 * (4 + Len(payload_of(r)) + 1)

BufferCaps(r) ==
    {0, 1, LineLength(r) - 1, LineLength(r), LineLength(r) + MaxSlack}

\* lib.rs is driven with an empty buffer and with one of the exact size.
LibBufferCaps(r) == {0, LineLength(r)}

\* Texts of up to MaxLines terminated lines, some of them blank, and the same
\* with a last line that has no terminator.
TextLines ==
    {<<>>,
     LineOf(<<2, 0, 0, 4, 171, 205, 130>>, HEX_CHARS_UPPER),
     LineOf(<<0, 0, 0, 1, 254>>, HEX_CHARS_UPPER)}

Terminators == {<<LF>>, <<CR, LF>>}

RECURSIVE TextsUpTo(_)
TextsUpTo(n) ==
    IF n = 0 THEN {<<>>}
    ELSE LET shorter == TextsUpTo(n - 1)
         IN  shorter \cup {t \o l \o e : t \in shorter, l \in TextLines, e \in Terminators}

Texts == TextsUpTo(MaxLines) \cup {t \o l : t \in TextsUpTo(MaxLines - 1), l \in TextLines}

TamperPositions(n) == {i \in 1..(n - 1) : i <= MaxTamperHead \/ i >= n - 2}

(***************************************************************************)
(* The state machine: one action per call.  The codec keeps nothing        *)
(* between calls, so every behaviour starts one scenario from Init.        *)
(***************************************************************************)
Init ==
    /\ op = "Init"
    /\ line = <<>>
    /\ result = NoResult
    /\ record = [type |-> "None"]
    /\ buffer = <<>>
    /\ written = NoResult
    /\ bytes = <<>>
    /\ sum = 0
    /\ tampered = 0
    /\ text = <<>>
    /\ inner = <<>>
    /\ done = FALSE
    /\ yielded = <<>>

Fresh(o) ==
    /\ op' = o
    /\ tampered' = 0
    /\ UNCHANGED iter

\* checksum(b)
Checksum(b) ==
    /\ op = "Init"
    /\ Fresh("Checksum")
    /\ bytes' = b
    /\ sum' = checksum(b)
    /\ line' = <<>>
    /\ result' = NoResult
    /\ record' = [type |-> "None"]
    /\ buffer' = <<>>
    /\ written' = NoResult

\* checksum(b ++ [checksum(b)])
ChecksumAppended ==
    /\ op = "Checksum"
    /\ Fresh("ChecksumAppended")
    /\ bytes' = Append(bytes, sum)
    /\ sum' = checksum(bytes')
    /\ UNCHANGED <<line, result, record, buffer, written>>

\* IHex::parse(l)
Parse(l) ==
    /\ op = "Init"
    /\ Fresh("Parse")
    /\ line' = l
    /\ result' = parse(l)
    /\ record' = [type |-> "None"]
    /\ buffer' = <<>>
    /\ written' = NoResult
    /\ bytes' = <<>>
    /\ sum' = 0

\* r.serialize(&mut [0; cap])
Serialize(r, cap) ==
    /\ op = "Init"
    /\ Fresh("Serialize")
    /\ record' = r
    /\ LET s == serialize(r, Fill(cap, 0))
       IN  /\ buffer' = s.buffer
           /\ written' = s.ret
    /\ line' = <<>>
    /\ result' = NoResult
    /\ bytes' = <<>>
    /\ sum' = 0

\* IHex::parse(&buffer[..n]) after serialize returned Ok(n)
ParseSerialized ==
    /\ op = "Serialize"
    /\ written.tag = "Ok"
    /\ Fresh("ParseSerialized")
    /\ line' = Slice(buffer, 0, written.n)
    /\ result' = parse(line')
    /\ UNCHANGED <<record, buffer, written, bytes, sum>>

\* lib.rs: r.serialize(&mut [0; cap])
LibSerialize(r, cap) ==
    /\ op = "Init"
    /\ Fresh("LibSerialize")
    /\ record' = r
    /\ LET s == lib_serialize(r, Fill(cap, 0))
       IN  /\ buffer' = s.buffer
           /\ written' = s.ret
    /\ line' = <<>>
    /\ result' = NoResult
    /\ bytes' = <<>>
    /\ sum' = 0

\* lib.rs: IHex::parse of the line serialize wrote
LibParseSerialized ==
    /\ op = "LibSerialize"
    /\ written.tag = "Unit"
    /\ Fresh("LibParseSerialized")
    /\ line' = Slice(buffer, 0, LineLength(record))
    /\ result' = lib_parse(line')
    /\ UNCHANGED <<record, buffer, written, bytes, sum>>

\* A line that parsed, with its decoded byte i replaced by another value v,
\* is parsed again.
Tamper(i, v) ==
    /\ op = "Parse"
    /\ result.tag = "Ok"
    /\ i \in TamperPositions((Len(line) - 1) \div 2)
    /\ val(line[2 * i]) * 16 + val(line[2 * i + 1]) # v
    /\ op' = "Tamper"
    /\ tampered' = i
    /\ line' = [line EXCEPT ![2 * i] = HEX_CHARS_UPPER[(v \div 16) + 1],
                            ![2 * i + 1] = HEX_CHARS_UPPER[(v % 16) + 1]]
    /\ result' = parse(line')
    /\ UNCHANGED <<record, buffer, written, bytes, sum>>
    /\ UNCHANGED iter

\* r.serialize(&mut buffer) for the record r that parse returned, the buffer
\* zeroed and slack bytes longer than the line
SerializeParsed(slack) ==
    /\ op = "Parse"
    /\ result.tag = "Ok"
    /\ Fresh("SerializeParsed")
    /\ record' = result.rec
    /\ LET s == serialize(result.rec, Fill(LineLength(result.rec) + slack, 0))
       IN  /\ buffer' = s.buffer
           /\ written' = s.ret
    /\ UNCHANGED <<line, result, bytes, sum>>

\* IHex::parse(&buffer[..n]) of what that serialize wrote; line stays the
\* line the record was first parsed from.
Reparse ==
    /\ op = "SerializeParsed"
    /\ written.tag = "Ok"
    /\ Fresh("Reparse")
    /\ result' = parse(Slice(buffer, 0, written.n))
    /\ UNCHANGED <<line, record, buffer, written, bytes, sum>>

\* Parser::new(t)
ParserNew(t) ==
    /\ op = "Init"
    /\ op' = "ParserNew"
    /\ text' = t
    /\ inner' = lines(t)
    /\ done' = FALSE
    /\ yielded' = <<>>
    /\ UNCHANGED <<line, result, record, buffer, written, bytes, sum, tampered>>

\* parser.next()
ParserNext ==
    /\ op \in {"ParserNew", "ParserNext"}
    /\ Len(yielded) < Len(lines(text)) + MaxExtraCalls
    /\ op' = "ParserNext"
    /\ LET n == parser_next(inner, done)
       IN  /\ yielded' = Append(yielded, n.item)
           /\ inner' = n.inner
    /\ UNCHANGED <<text, done>>
    /\ UNCHANGED <<line, result, record, buffer, written, bytes, sum, tampered>>

\* IHex::parse_multi(t)
ParseMulti(t) ==
    /\ op = "Init"
    /\ op' = "ParseMulti"
    /\ text' = t
    /\ inner' = lines(t)
    /\ done' = FALSE
    /\ yielded' = <<>>
    /\ UNCHANGED <<line, result, record, buffer, written, bytes, sum, tampered>>

\* next() of the iterator parse_multi returned
MultiNext ==
    /\ op \in {"ParseMulti", "MultiNext"}
    /\ Len(yielded) < Len(lines(text)) + MaxExtraCalls
    /\ op' = "MultiNext"
    /\ LET n == multi_next(inner)
       IN  /\ yielded' = Append(yielded, n.item)
           /\ inner' = n.inner
    /\ UNCHANGED <<text, done>>
    /\ UNCHANGED <<line, result, record, buffer, written, bytes, sum, tampered>>

Next ==
    \/ \E b \in ChecksumInputs : Checksum(b)
    \/ ChecksumAppended
    \/ \E l \in Lines : Parse(l)
    \/ \E r \in Records : \E cap \in BufferCaps(r) : Serialize(r, cap)
    \/ ParseSerialized
    \/ \E r \in Records : \E cap \in LibBufferCaps(r) : LibSerialize(r, cap)
    \/ LibParseSerialized
    \/ \E i \in 1..260 : \E v \in TamperValues : Tamper(i, v)
    \/ \E slack \in {0, MaxSlack} : SerializeParsed(slack)
    \/ Reparse
    \/ \E t \in Texts : ParserNew(t)
    \/ ParserNext
    \/ \E t \in Texts : ParseMulti(t)
    \/ MultiNext

Spec == Init /\ [][Next]_vars

(***************************************************************************)
(* Vocabulary of the properties.  A line is read here independently of the *)
(* codec: digit by digit from the two tables, and summed without wrapping. *)
(***************************************************************************)
IsHexChar(c) == \E d \in 1..16 : HEX_CHARS_LOWER[d] = c \/ HEX_CHARS_UPPER[d] = c

HexDigit(c) == CHOOSE d \in 0..15 : HEX_CHARS_LOWER[d + 1] = c \/ HEX_CHARS_UPPER[d + 1] = c

HasMarker(l) == Len(l) > 0 /\ l[1] = COLON

\* The text after the marker is an even number of hex digits.
HexClean(l) ==
    /\ HasMarker(l)
    /\ (Len(l) - 1) % 2 = 0
    /\ \A i \in 2..Len(l) : IsHexChar(l[i])

DecodedLen(l) == (Len(l) - 1) \div 2

DecodedByte(l, k) == HexDigit(l[2 * k]) * 16 + HexDigit(l[2 * k + 1])

Decoded(l) == [k \in 1..DecodedLen(l) |-> DecodedByte(l, k)]

\* The last decoded byte makes all the decoded bytes sum to 0 mod 256.
ChecksumOk(l) ==
    /\ HexClean(l)
    /\ DecodedLen(l) >= 1
    /\ Total(Decoded(l), 1, DecodedLen(l)) % 256 = 0

\* The payload bytes present between the 4-byte header and the checksum.
PayloadCount(l) == IF DecodedLen(l) > 5 THEN DecodedLen(l) - 5 ELSE 0

\* The line passes the marker, hex, checksum and length checks.
WellFormed(l) ==
    /\ ChecksumOk(l)
    /\ DecodedLen(l) >= 5
    /\ DecodedByte(l, 1) = DecodedLen(l) - 5

TypeByte(l) == DecodedByte(l, 4)

PayloadByte(l, i) == DecodedByte(l, 4 + i)

Parsed == op \in {"Parse", "ParseSerialized", "Tamper"}

IsErr(r, kind) == r.tag = "Err" /\ r.err[1] = kind

\* The bytes of a Data record past its length are all zero.
ZeroPastLength(r) ==
    r.type = "Data" => \A i \in (r.length + 1)..BYTES_CAP : r.bytes[i] = 0

(***************************************************************************)
(* C1: round trip.  For every constructible record r, with any contents of *)
(* the bytes buffer of a Data record, and a buffer large enough, parsing   *)
(* the line serialize(r) wrote returns Ok(r).                              *)
(***************************************************************************)
C1_RoundTrip ==
    op = "ParseSerialized" => result = [tag |-> "Ok", rec |-> record]

(***************************************************************************)
(* C2: checksum(b) is the one byte v with (sum of b + v) mod 256 = 0, for  *)
(* every b of 0 to 259 bytes; checksum(b ++ [checksum(b)]) = 0; and the    *)
(* checksum of the empty sequence is 0.                                    *)
(***************************************************************************)
C2_ChecksumSumsToZero ==
    /\ op = "Checksum" =>
         /\ sum \in U8
         /\ \A v \in U8 : ((Total(bytes, 1, Len(bytes)) + v) % 256 = 0) <=> (v = sum)
         /\ (bytes = <<>> => sum = 0)
    /\ op = "ChecksumAppended" => sum = 0

C2_Witness ==
    /\ op = "ChecksumAppended"
    /\ Len(bytes) = 260
    /\ bytes[260] # 0
    /\ sum = 0

(***************************************************************************)
(* C3: the checksum byte the encoder appends makes the bytes of the        *)
(* written line sum to 0 mod 256, so no serialized line is rejected by     *)
(* parse with BadChecksum.  Stated of serializer.rs and of lib.rs.         *)
(***************************************************************************)
C3_SerializedChecksum ==
    /\ (op \in {"Serialize", "LibSerialize"} /\ written.tag \in {"Ok", "Unit"}) =>
          ChecksumOk(Slice(buffer, 0, LineLength(record)))
    /\ op \in {"ParseSerialized", "LibParseSerialized"} => ~IsErr(result, "BadChecksum")

(***************************************************************************)
(* C4: parse is total.  For every input it returns Ok or one of the five   *)
(* errors, it never panics, and it never returns Ok for a line that        *)
(* decodes to more than 260 bytes.                                         *)
(***************************************************************************)
C4_ParseTotal ==
    Parsed =>
      /\ result.tag \in {"Ok", "Err"}
      /\ result.tag = "Err" =>
           result.err[1] \in {"MissingColon", "ParseError", "BadChecksum", "BadLength", "BadType"}
      /\ result.tag = "Ok" => DecodedLen(line) <= 260

(***************************************************************************)
(* C5: a line that parses, with any one decoded byte before the checksum   *)
(* changed to another value, is rejected with BadChecksum(computed,        *)
(* expected): expected is the last decoded byte, computed the checksum of  *)
(* the bytes before it, whichever byte (length, offset, type, payload) was *)
(* changed.                                                                *)
(***************************************************************************)
C5_TamperBadChecksum ==
    [][op' = "Tamper" =>
         /\ result.tag = "Ok"
         /\ LET n == DecodedLen(line')
                before == [k \in 1..(n - 1) |-> DecodedByte(line', k)]
            IN  result' = [tag |-> "Err",
                           err |-> <<"BadChecksum", SumToZero(before), DecodedByte(line', n)>>]]_vars

\* The type byte was changed, to a tag that parse does not know.
C5_Witness ==
    /\ op = "Tamper"
    /\ tampered = 4
    /\ TypeByte(line) = 255
    /\ IsErr(result, "BadChecksum")

(***************************************************************************)
(* C6: a line with the marker, clean hex and a correct checksum whose      *)
(* declared length differs from the payload bytes present is rejected with *)
(* BadLength, whatever its type tag and however few bytes its body holds.  *)
(***************************************************************************)
C6_LengthMismatch ==
    (/\ Parsed
     /\ ChecksumOk(line)
     /\ DecodedLen(line) >= 2
     /\ DecodedByte(line, 1) # PayloadCount(line))
    => result = [tag |-> "Err", err |-> <<"BadLength">>]

C8_FieldsOf(l, r) ==
    CASE TypeByte(l) = 0 ->
           /\ r.type = "Data"
           /\ r.length = DecodedByte(l, 1)
           /\ r.length = PayloadCount(l)
           /\ r.offset = DecodedByte(l, 2) * 256 + DecodedByte(l, 3)
           /\ \A i \in 1..r.length : r.bytes[i] = PayloadByte(l, i)
      [] TypeByte(l) = 1 -> r.type = "EndOfFile"
      [] TypeByte(l) = 2 ->
           /\ r.type = "ExtendedSegmentAddress"
           /\ r.address = PayloadByte(l, 1) * 256 + PayloadByte(l, 2)
      [] TypeByte(l) = 3 ->
           /\ r.type = "StartSegmentAddress"
           /\ r.cs = PayloadByte(l, 1) * 256 + PayloadByte(l, 2)
           /\ r.ip = PayloadByte(l, 3) * 256 + PayloadByte(l, 4)
      [] TypeByte(l) = 4 ->
           /\ r.type = "ExtendedLinearAddress"
           /\ r.address = PayloadByte(l, 1) * 256 + PayloadByte(l, 2)
      [] TypeByte(l) = 5 ->
           /\ r.type = "StartLinearAddress"
           /\ r.address = <<PayloadByte(l, 1) * 256 + PayloadByte(l, 2),
                            PayloadByte(l, 3) * 256 + PayloadByte(l, 4)>>

C8_TypeDispatch ==
    (Parsed /\ WellFormed(line)) =>
       IF TypeByte(line) >= 6
       THEN result = [tag |-> "Err", err |-> <<"BadType">>]
       ELSE /\ result.tag = "Ok"
            /\ C8_FieldsOf(line, result.rec)
            /\ record_type(result.rec) = TypeByte(line)

(***************************************************************************)
(* C9: payload width.  Ok(ExtendedSegmentAddress / ExtendedLinearAddress)  *)
(* only for a 2-byte payload, Ok(StartSegmentAddress / StartLinearAddress) *)
(* only for a 4-byte payload, Ok(EndOfFile) only for an empty payload; a   *)
(* line with tag 0x01..0x05 and another payload length is rejected with an *)
(* error.                                                                  *)
(***************************************************************************)
C9_Width(tag) == IF tag = 1 THEN 0 ELSE IF tag \in {2, 4} THEN 2 ELSE 4

C9_PayloadWidth ==
    (Parsed /\ WellFormed(line) /\ TypeByte(line) \in 1..5) =>
       IF PayloadCount(line) = C9_Width(TypeByte(line))
       THEN result.tag = "Ok"
       ELSE result.tag = "Err"

(***************************************************************************)
(* C10: encoder output.  With a large enough buffer serialize returns      *)
(* Ok(n), n = 1 + 2 * (4 + payload_len + 1), and buffer[0..n] is ':' and   *)
(* the lowercase hex of length, offset (high, low), type tag, payload and  *)
(* checksum; Data has its own offset and its first length bytes as the     *)
(* payload, the other variants offset 0 and their fields big-endian.       *)
(***************************************************************************)
C10_Payload(r) ==
    CASE r.type = "Data" -> [i \in 1..r.length |-> r.bytes[i]]
      [] r.type = "EndOfFile" -> <<>>
      [] r.type \in {"ExtendedSegmentAddress", "ExtendedLinearAddress"} ->
           <<r.address \div 256, r.address % 256>>
      [] r.type = "StartSegmentAddress" ->
           <<r.cs \div 256, r.cs % 256, r.ip \div 256, r.ip % 256>>
      [] r.type = "StartLinearAddress" ->
           <<r.address[1] \div 256, r.address[1] % 256, r.address[2] \div 256, r.address[2] % 256>>

C10_Tag(r) ==
    CASE r.type = "Data" -> 0
      [] r.type = "EndOfFile" -> 1
      [] r.type = "ExtendedSegmentAddress" -> 2
      [] r.type = "StartSegmentAddress" -> 3
      [] r.type = "ExtendedLinearAddress" -> 4
      [] r.type = "StartLinearAddress" -> 5

C10_Wire(r) ==
    LET p == C10_Payload(r)
        o == IF r.type = "Data" THEN r.offset ELSE 0
        head == <<Len(p), o \div 256, o % 256, C10_Tag(r)>> \o p
    IN  Append(head, SumToZero(head))

C10_LowerDigit(d) ==
    IF d < 10 THEN 48 + d ELSE 97 + (d - 10)

C10_EncoderOutput ==
    LET w == C10_Wire(record)
        n == 1 + 2 * (4 + Len(C10_Payload(record)) + 1)
    IN  (op = "Serialize" /\ Len(buffer) >= n) =>
          /\ written = [tag |-> "Ok", n |-> n]
          /\ buffer[1] = 58
          /\ \A k \in 1..Len(w) :
               /\ buffer[2 * k] = C10_LowerDigit(w[k] \div 16)
               /\ buffer[2 * k + 1] = C10_LowerDigit(w[k] % 16)

\* A full Data record at a non-zero offset, written with a letter digit.
C10_Witness ==
    /\ op = "Serialize"
    /\ written.tag = "Ok"
    /\ record.type = "Data"
    /\ record.length = BYTES_CAP
    /\ record.offset # 0
    /\ \E i \in 1..written.n : buffer[i] >= 97

(***************************************************************************)
(* C11: undersized destination.  For every record and every buffer shorter *)
(* than 1 + 2 * (4 + payload_len + 1) bytes, the empty one included,       *)
(* serialize returns an error value, does not panic, and leaves every byte *)
(* of the buffer as it was.                                                *)
(***************************************************************************)
C11_UndersizedIsError ==
    (op = "Serialize" /\ Len(buffer) < 1 + 2 * (4 + Len(C10_Payload(record)) + 1)) =>
       /\ written.tag = "Err"
       /\ \A i \in 1..Len(buffer) : buffer[i] = 0

(***************************************************************************)
(* C12: multi-line iteration.  Parser::next called repeatedly, and the     *)
(* iterator of parse_multi, yield exactly parse(l) for each non-empty line *)
(* l of the text, in order: blank lines are skipped, so parse is never     *)
(* called on an empty line, a failing line yields its Err and the later    *)
(* lines are decoded as usual, and once the lines are exhausted every      *)
(* further call of next returns None.                                      *)
(***************************************************************************)
\* Where a line of the text starts, and where its content ends.
C12_Starts(t) == {a \in 1..Len(t) : a = 1 \/ t[a - 1] = 10}

C12_End(t, a) ==
    LET after == {j \in a..Len(t) : t[j] = 10}
    IN  IF after = {} THEN Len(t)
        ELSE LET nl == CHOOSE j \in after : \A k \in after : j <= k
             IN  IF nl - 1 >= a /\ t[nl - 1] = 13 THEN nl - 2 ELSE nl - 1

C12_NonEmpty(t) == {a \in C12_Starts(t) : C12_End(t, a) >= a}

C12_Kth(S, k) == CHOOSE x \in S : Cardinality({y \in S : y < x}) = k - 1

C12_Expected(t) ==
    [k \in 1..Cardinality(C12_NonEmpty(t)) |->
       LET a == C12_Kth(C12_NonEmpty(t), k)
       IN  parse([i \in 1..(C12_End(t, a) - a + 1) |-> t[a + i - 1]])]

C12_MultiLine ==
    op \in {"ParserNext", "MultiNext"} =>
      LET e == C12_Expected(text)
      IN  \A k \in 1..Len(yielded) :
            yielded[k] = IF k <= Len(e) THEN [tag |-> "Some", val |-> e[k]]
                         ELSE [tag |-> "None"]

(***************************************************************************)
(* C13: the round trip on the decoder's image.  For every line l with      *)
(* parse(l) = Ok(r) and a large enough buffer, serialize(r) succeeds and   *)
(* parsing what it wrote returns Ok(r) again, also when l is not canonical *)
(* (uppercase digits, a non-zero offset on a record that is not Data,      *)
(* extra payload bytes on an address record); and every Data record that   *)
(* parse returns has all its bytes past length equal to zero.              *)
(***************************************************************************)
C13_ImageRoundTrip ==
    /\ op = "SerializeParsed" =>
         /\ written.tag = "Ok"
         /\ written.n <= Len(buffer)
    /\ op = "Reparse" => result = [tag |-> "Ok", rec |-> record]
    /\ (op \in {"Parse", "ParseSerialized", "Reparse"} /\ result.tag = "Ok"
          /\ result.rec.type = "Data") =>
         \A i \in (result.rec.length + 1)..255 : result.rec.bytes[i] = 0

\* An address record read from an uppercase line with a non-zero offset field
\* and more payload than its width comes back from its own serialization.
C13_Witness ==
    /\ op = "Reparse"
    /\ result.tag = "Ok"
    /\ result.rec = record
    /\ record.type = "ExtendedSegmentAddress"
    /\ record.address # 0
    /\ PayloadCount(line) > 2
    /\ DecodedByte(line, 2) * 256 + DecodedByte(line, 3) # 0
    /\ \E i \in 2..Len(line) : line[i] \in 65..70
    /\ line # Slice(buffer, 0, written.n)

====
